---- MODULE Spec2Model ----
(***************************************************************************)
(* Model of the crew-connect backend: the Express handlers of              *)
(* routes/materials.js, routes/projects.js and routes/workers.js running   *)
(* against the single shared SQLite connection of db.js.                   *)
(*                                                                         *)
(* Every handler is an async function; each `await db.get/run` is one      *)
(* atomic step on the shared connection and handlers of different          *)
(* requests interleave between their awaits.  BEGIN / COMMIT / ROLLBACK    *)
(* act on the one connection, so a transaction contains every statement    *)
(* executed on the connection between its BEGIN and its COMMIT/ROLLBACK.   *)
(***************************************************************************)
EXTENDS Integers, Sequences, FiniteSets, TLC

VARIABLES db, snap, inTxn, hs, calls, faults

vars == <<db, snap, inTxn, hs, calls, faults>>

(***************************************************************************)
(* Bounds of the model.                                                    *)
(***************************************************************************)
MaxCalls == 4
MaxOrderCalls == 3
MaxRequests == 2
MaxFaults == 1
MaxAssignCalls == 3
MaxReadCalls == 3
MaxCreateCalls == 3
MaxReassignCalls == 4
MaxLiveCalls == 3
MaxStoreCalls == 3
MaxAcceptCalls == 4
MaxDeleteCalls == 4

(***************************************************************************)
(* Users, projects, materials: the rows present before the workflows run.  *)
(***************************************************************************)
NULL == "null"

Admins == {"admin"}
Clients == {"u1", "u2"}
Engineers == {"ce1", "ce2"}
Trades == {"w1"}
Workers == Engineers \cup Trades
Users == Admins \cup Clients \cup Workers

user_type(u) ==
  IF u \in Admins THEN "admin" ELSE IF u \in Clients THEN "user" ELSE "worker"

sub_user_type(u) ==
  IF u \in Engineers THEN "civil_engineer"
  ELSE IF u \in Trades THEN "painter" ELSE NULL

\* req.user as established by the authentication middleware
authenticateToken(u) ==
  [id |-> u, user_type |-> user_type(u), sub_user_type |-> sub_user_type(u)]

Projects == {"p1", "p2"}
created_by(p) == IF p = "p1" THEN "u1" ELSE "u2"

Materials == {"m1"}
InitStock == 3
InitPrice == 5

ProjectStatus == {"planning", "in_progress", "completed", "cancelled"}
RequestStatus == {"pending", "accepted", "rejected"}

(***************************************************************************)
(* The store: one record holding the tables the workflows touch.           *)
(***************************************************************************)
InitDB ==
  [ is_available      |-> [w \in Workers |-> TRUE],
    civil_engineer_id |-> [p \in Projects |-> NULL],
    status            |-> [p \in Projects |-> "planning"],
    worker_requests   |-> << >>,
    project_workers   |-> << >>,
    stock_quantity    |-> [m \in Materials |-> InitStock],
    price_per_unit    |-> [m \in Materials |-> InitPrice],
    project_materials |-> << >> ]

\* the state after ce1 accepted a request for p1 (reached under Spec, see
\* OrderInitReachable)
AcceptedDB ==
  [ InitDB EXCEPT
      !.is_available["ce1"] = FALSE,
      !.civil_engineer_id["p1"] = "ce1",
      !.status["p1"] = "in_progress",
      !.worker_requests = << [project_id |-> "p1", worker_id |-> "ce1",
                              requested_by |-> "u1", status |-> "accepted"] >>,
      !.project_workers = << [project_id |-> "p1", worker_id |-> "ce1",
                              assigned_by |-> "ce1", role |-> "civil_engineer"] >> ]

\* the state after ce1 accepted a request for p1 and ce2 one for p2
TwoEngineersDB ==
  [ AcceptedDB EXCEPT
      !.is_available["ce2"] = FALSE,
      !.civil_engineer_id["p2"] = "ce2",
      !.status["p2"] = "in_progress",
      !.worker_requests = Append(@, [project_id |-> "p2", worker_id |-> "ce2",
                                     requested_by |-> "u2", status |-> "accepted"]),
      !.project_workers = Append(@, [project_id |-> "p2", worker_id |-> "ce2",
                                     assigned_by |-> "ce2", role |-> "civil_engineer"]) ]

\* a row of projects with this id exists
ProjectExists(d, p) == p \in DOMAIN d.civil_engineer_id

\* what a crash or a ROLLBACK would leave: the last committed store
committed == IF inTxn THEN snap ELSE db

(***************************************************************************)
(* Handler slots: one in-flight request each.                              *)
(***************************************************************************)
Handlers == {"h1", "h2"}

Blank ==
  [ pc |-> "idle", op |-> "", actor |-> "", project_id |-> "", worker_id |-> "",
    material_id |-> "", id |-> 0, quantity |-> 0, status |-> "", role |-> "",
    request_project_id |-> "", total_cost |-> 0, worker_sub |-> "",
    price_per_unit |-> 0, stock_quantity |-> 0,
    begun |-> 0, res |-> "" ]

Free(h) == hs[h].pc \in {"idle", "done"}

\* res.status(...).json(...): the handler's single response
Respond(h, r) == [hs EXCEPT ![h].pc = "done", ![h].res = r]
Goto(h, l) == [hs EXCEPT ![h].pc = l]

\* responses, named by status code and error text
OK200 == "200"
Created201 == "201"
Forbidden == "403"
NotFound == "404"
InsufficientStock == "400 Insufficient stock"
WorkerNotAvailable == "400 Worker not available"
RequestAlreadySent == "400 Request already sent to this worker"
AlreadyResponded == "400 Request already responded to"
Internal == "500"

(***************************************************************************)
(* The shared connection: transactions and store faults.                   *)
(***************************************************************************)
\* a statement inside a transaction may throw (I/O error, busy store)
MayFault == faults < MaxFaults

Init ==
  /\ db = InitDB
  /\ snap = InitDB
  /\ inTxn = FALSE
  /\ hs = [h \in Handlers |-> Blank]
  /\ calls = 0
  /\ faults = 0

InitOrder ==
  /\ db = AcceptedDB
  /\ snap = AcceptedDB
  /\ inTxn = FALSE
  /\ hs = [h \in Handlers |-> Blank]
  /\ calls = 0
  /\ faults = 0

(***************************************************************************)
(* POST /materials/order                                                   *)
(***************************************************************************)
OrderActors == {"ce1", "ce2"}
OrderMaterials == Materials \cup {"m9"}
\* req.body.quantity is not validated by the handler
Quantities == {-1, 0, 1, 2}

\* SELECT * FROM projects WHERE id = ? AND civil_engineer_id = ?
OrderGetProject(h, actor, p, m, q) ==
  /\ Free(h)
  /\ calls' = calls + 1
  /\ LET start == [Blank EXCEPT !.op = "order", !.actor = actor, !.project_id = p,
                                !.material_id = m, !.quantity = q]
     IN  IF ProjectExists(db, p) /\ db.civil_engineer_id[p] = authenticateToken(actor).id
           THEN hs' = [hs EXCEPT ![h] = [start EXCEPT !.pc = "o_material"]]
           ELSE hs' = [hs EXCEPT ![h] = [start EXCEPT !.pc = "done", !.res = Forbidden]]
  /\ UNCHANGED <<db, snap, inTxn, faults>>

\* the stock check with <= in place of <
OrderGetMaterial_OffByOne(h) ==
  /\ hs[h].pc = "o_material"
  /\ LET m == hs[h].material_id
     IN  IF m \notin DOMAIN db.stock_quantity
           THEN hs' = Respond(h, NotFound)
           ELSE IF db.stock_quantity[m] <= hs[h].quantity
                  THEN hs' = Respond(h, InsufficientStock)
                  ELSE hs' = [hs EXCEPT ![h].pc = "o_begin",
                                        ![h].total_cost = db.price_per_unit[m] * hs[h].quantity]
  /\ UNCHANGED <<db, snap, inTxn, calls, faults>>

\* SELECT * FROM materials WHERE id = ?; stock check; total_cost
OrderGetMaterial(h) ==
  /\ hs[h].pc = "o_material"
  /\ LET m == hs[h].material_id
     IN  IF m \notin DOMAIN db.stock_quantity
           THEN hs' = Respond(h, NotFound)
           ELSE IF db.stock_quantity[m] < hs[h].quantity
                  THEN hs' = Respond(h, InsufficientStock)
                  ELSE hs' = [hs EXCEPT ![h].pc = "o_begin",
                                        ![h].total_cost = db.price_per_unit[m] * hs[h].quantity]
  /\ UNCHANGED <<db, snap, inTxn, calls, faults>>

\* BEGIN TRANSACTION: throws when the connection is already in one
OrderBegin(h) ==
  /\ hs[h].pc = "o_begin"
  /\ IF inTxn
       THEN /\ hs' = Respond(h, Internal)
            /\ UNCHANGED <<snap, inTxn>>
       ELSE /\ hs' = [hs EXCEPT ![h].pc = "o_insert", ![h].begun = 1]
            /\ snap' = db
            /\ inTxn' = TRUE
  /\ UNCHANGED <<db, calls, faults>>

\* INSERT INTO project_materials
OrderInsert(h) ==
  /\ hs[h].pc = "o_insert"
  /\ \/ /\ db' = [db EXCEPT !.project_materials = Append(@,
                     [project_id |-> hs[h].project_id, material_id |-> hs[h].material_id,
                      quantity |-> hs[h].quantity, total_cost |-> hs[h].total_cost,
                      ordered_by |-> hs[h].actor])]
        /\ hs' = Goto(h, "o_update")
        /\ UNCHANGED faults
     \/ /\ MayFault
        /\ faults' = faults + 1
        /\ hs' = Goto(h, "o_rollback")
        /\ UNCHANGED db
  /\ UNCHANGED <<snap, inTxn, calls>>

\* UPDATE materials SET stock_quantity = stock_quantity - ?
OrderUpdateStock(h) ==
  /\ hs[h].pc = "o_update"
  /\ \/ /\ db' = [db EXCEPT !.stock_quantity =
                     [m \in DOMAIN @ |-> IF m = hs[h].material_id
                                           THEN @[m] - hs[h].quantity ELSE @[m]]]
        /\ hs' = Goto(h, "o_commit")
        /\ UNCHANGED faults
     \/ /\ MayFault
        /\ faults' = faults + 1
        /\ hs' = Goto(h, "o_rollback")
        /\ UNCHANGED db
  /\ UNCHANGED <<snap, inTxn, calls>>

\* COMMIT, then the success response
OrderCommit(h) ==
  /\ hs[h].pc = "o_commit"
  /\ \/ /\ inTxn' = FALSE
        /\ hs' = Respond(h, OK200)
        /\ UNCHANGED faults
     \/ /\ MayFault
        /\ faults' = faults + 1
        /\ hs' = Goto(h, "o_rollback")
        /\ UNCHANGED inTxn
  /\ UNCHANGED <<db, snap, calls>>

\* the catch block starting the transaction again instead of rethrowing
OrderRollback_Retry(h) ==
  /\ hs[h].pc = "o_rollback"
  /\ db' = snap
  /\ inTxn' = FALSE
  /\ hs' = Goto(h, "o_begin")
  /\ UNCHANGED <<snap, calls, faults>>

\* the catch block answering 500 without its ROLLBACK taking effect
OrderRollback_NoRestore(h) ==
  /\ hs[h].pc = "o_rollback"
  /\ inTxn' = FALSE
  /\ hs' = Respond(h, Internal)
  /\ UNCHANGED <<db, snap, calls, faults>>

\* catch: ROLLBACK, rethrow, 500
OrderRollback(h) ==
  /\ hs[h].pc = "o_rollback"
  /\ db' = snap
  /\ inTxn' = FALSE
  /\ hs' = Respond(h, Internal)
  /\ UNCHANGED <<snap, calls, faults>>

OrderStep(h) ==
  \/ OrderGetMaterial(h)
  \/ OrderBegin(h)
  \/ OrderInsert(h)
  \/ OrderUpdateStock(h)
  \/ OrderCommit(h)
  \/ OrderRollback(h)

NextOrder ==
  \E h \in Handlers :
    \/ /\ calls < MaxOrderCalls
       /\ \E actor \in OrderActors, m \in OrderMaterials, q \in Quantities :
            OrderGetProject(h, actor, "p1", m, q)
    \/ OrderStep(h)

SpecOrder == InitOrder /\ [][NextOrder]_vars

(***************************************************************************)
(* Properties of the order workflow (checked under SpecOrder).             *)
(***************************************************************************)
OrderDone(h) == hs[h].op = "order" /\ hs[h].pc = "done"

\* C1: every material's stock_quantity is >= 0 in every reachable state,
\* whatever the interleaving of concurrent Orders.
C1_StockNeverNegative ==
  \A m \in DOMAIN committed.stock_quantity : committed.stock_quantity[m] >= 0

\* two Orders by the project's civil engineer on m1, the only two calls made,
\* each fitting the initial stock and together exceeding it, both answered
TwoCompetingOrders ==
  /\ calls = 2
  /\ faults = 0
  /\ \A h \in Handlers :
        /\ OrderDone(h)
        /\ hs[h].actor = "ce1"
        /\ hs[h].material_id = "m1"
        /\ hs[h].quantity <= InitStock
  /\ hs["h1"].quantity + hs["h2"].quantity > InitStock

\* C2: of two competing Orders exactly one succeeds, the other fails with
\* InsufficientStock, and the final stock is the initial stock minus the
\* successful quantity.
C2_ExactlyOneOrderSucceeds ==
  TwoCompetingOrders =>
    \E w \in Handlers : \E l \in Handlers \ {w} :
       /\ hs[w].res = OK200
       /\ hs[l].res = InsufficientStock
       /\ db.stock_quantity["m1"] = InitStock - hs[w].quantity

(***************************************************************************)
(* POST /projects/:id/request-worker                                       *)
(***************************************************************************)
\* the lookup without its status filter: any earlier request blocks
existingRequest_AnyStatus(d, p, w) ==
  \E i \in 1..Len(d.worker_requests) :
     /\ d.worker_requests[i].project_id = p
     /\ d.worker_requests[i].worker_id = w

\* SELECT * FROM worker_requests WHERE project_id = ? AND worker_id = ?
\*   AND status = 'pending'
existingRequest(d, p, w) ==
  \E i \in 1..Len(d.worker_requests) :
     /\ d.worker_requests[i].project_id = p
     /\ d.worker_requests[i].worker_id = w
     /\ d.worker_requests[i].status = "pending"

\* rows of worker_requests present or about to be inserted
RequestsInFlight ==
  Len(db.worker_requests)
    + Cardinality({g \in Handlers : hs[g].op = "create" /\ ~Free(g)})

\* SELECT * FROM projects WHERE id = ?; ownership check
CreateGetProject(h, actor, p, w) ==
  /\ Free(h)
  /\ RequestsInFlight < MaxRequests
  /\ calls' = calls + 1
  /\ LET start == [Blank EXCEPT !.op = "create", !.actor = actor, !.project_id = p,
                                !.worker_id = w]
     IN  IF ~ProjectExists(db, p)
           THEN hs' = [hs EXCEPT ![h] = [start EXCEPT !.pc = "done", !.res = NotFound]]
           ELSE IF created_by(p) # authenticateToken(actor).id
                  THEN hs' = [hs EXCEPT ![h] = [start EXCEPT !.pc = "done", !.res = Forbidden]]
                  ELSE hs' = [hs EXCEPT ![h] = [start EXCEPT !.pc = "c_worker"]]
  /\ UNCHANGED <<db, snap, inTxn, faults>>

\* the worker lookup without "AND sub_user_type = 'civil_engineer'"
CreateGetWorker_AnySubRole(h) ==
  /\ hs[h].pc = "c_worker"
  /\ LET w == hs[h].worker_id
     IN  IF user_type(w) = "worker" /\ db.is_available[w]
           THEN hs' = Goto(h, "c_existing")
           ELSE hs' = Respond(h, WorkerNotAvailable)
  /\ UNCHANGED <<db, snap, inTxn, calls, faults>>

\* SELECT * FROM users WHERE id = ? AND user_type = 'worker'
\*   AND sub_user_type = 'civil_engineer' AND is_available = 1
CreateGetWorker(h) ==
  /\ hs[h].pc = "c_worker"
  /\ LET w == hs[h].worker_id
     IN  IF /\ user_type(w) = "worker"
            /\ sub_user_type(w) = "civil_engineer"
            /\ db.is_available[w]
           THEN hs' = Goto(h, "c_existing")
           ELSE hs' = Respond(h, WorkerNotAvailable)
  /\ UNCHANGED <<db, snap, inTxn, calls, faults>>

CreateGetExisting(h) ==
  /\ hs[h].pc = "c_existing"
  /\ IF existingRequest(db, hs[h].project_id, hs[h].worker_id)
       THEN hs' = Respond(h, RequestAlreadySent)
       ELSE hs' = Goto(h, "c_insert")
  /\ UNCHANGED <<db, snap, inTxn, calls, faults>>

\* the insert also reserving the requested worker
CreateInsert_Reserve(h) ==
  /\ hs[h].pc = "c_insert"
  /\ db' = [db EXCEPT !.worker_requests = Append(@,
               [project_id |-> hs[h].project_id, worker_id |-> hs[h].worker_id,
                requested_by |-> hs[h].actor, status |-> "pending"]),
                      !.is_available[hs[h].worker_id] = FALSE]
  /\ hs' = [hs EXCEPT ![h].pc = "done", ![h].res = Created201,
                      ![h].id = Len(db.worker_requests) + 1]
  /\ UNCHANGED <<snap, inTxn, calls, faults>>

\* INSERT INTO worker_requests (status defaults to 'pending'); 201
CreateInsert(h) ==
  /\ hs[h].pc = "c_insert"
  /\ db' = [db EXCEPT !.worker_requests = Append(@,
               [project_id |-> hs[h].project_id, worker_id |-> hs[h].worker_id,
                requested_by |-> hs[h].actor, status |-> "pending"])]
  /\ hs' = [hs EXCEPT ![h].pc = "done", ![h].res = Created201,
                      ![h].id = Len(db.worker_requests) + 1]
  /\ UNCHANGED <<snap, inTxn, calls, faults>>

CreateStep(h) ==
  \/ CreateGetWorker(h)
  \/ CreateGetExisting(h)
  \/ CreateInsert(h)

(***************************************************************************)
(* PUT /workers/requests/:id/respond                                       *)
(***************************************************************************)
\* req.body.status: 'accepted' or 'rejected'; the handler does not validate it,
\* so any other text reaches the UPDATE
Decisions == {"accepted", "rejected", "invalid"}

\* the lookup by id alone, without "AND worker_id = ?"
RespondGetRequest_AnyWorker(h, actor, rid, decision) ==
  /\ Free(h)
  /\ calls' = calls + 1
  /\ LET start == [Blank EXCEPT !.op = "respond", !.actor = actor, !.id = rid,
                                !.status = decision]
     IN  IF authenticateToken(actor).user_type # "worker"
           THEN hs' = [hs EXCEPT ![h] = [start EXCEPT !.pc = "done", !.res = Forbidden]]
           ELSE IF rid \notin 1..Len(db.worker_requests)
             THEN hs' = [hs EXCEPT ![h] = [start EXCEPT !.pc = "done", !.res = NotFound]]
             ELSE IF db.worker_requests[rid].status # "pending"
               THEN hs' = [hs EXCEPT ![h] =
                             [start EXCEPT !.pc = "done", !.res = AlreadyResponded]]
               ELSE hs' = [hs EXCEPT ![h] =
                             [start EXCEPT !.pc = "r_begin",
                                !.request_project_id = db.worker_requests[rid].project_id]]
  /\ UNCHANGED <<db, snap, inTxn, faults>>

\* role check; SELECT * FROM worker_requests WHERE id = ? AND worker_id = ?;
\* already-responded check
RespondGetRequest(h, actor, rid, decision) ==
  /\ Free(h)
  /\ calls' = calls + 1
  /\ LET start == [Blank EXCEPT !.op = "respond", !.actor = actor, !.id = rid,
                                !.status = decision]
         found == /\ rid \in 1..Len(db.worker_requests)
                  /\ db.worker_requests[rid].worker_id = authenticateToken(actor).id
     IN  IF authenticateToken(actor).user_type # "worker"
           THEN hs' = [hs EXCEPT ![h] = [start EXCEPT !.pc = "done", !.res = Forbidden]]
           ELSE IF ~found
             THEN hs' = [hs EXCEPT ![h] = [start EXCEPT !.pc = "done", !.res = NotFound]]
             ELSE IF db.worker_requests[rid].status # "pending"
               THEN hs' = [hs EXCEPT ![h] =
                             [start EXCEPT !.pc = "done", !.res = AlreadyResponded]]
               ELSE hs' = [hs EXCEPT ![h] =
                             [start EXCEPT !.pc = "r_begin",
                                !.request_project_id = db.worker_requests[rid].project_id]]
  /\ UNCHANGED <<db, snap, inTxn, faults>>

RespondBegin(h) ==
  /\ hs[h].pc = "r_begin"
  /\ IF inTxn
       THEN /\ hs' = Respond(h, Internal)
            /\ UNCHANGED <<snap, inTxn>>
       ELSE /\ hs' = [hs EXCEPT ![h].pc = "r_request", ![h].begun = 1]
            /\ snap' = db
            /\ inTxn' = TRUE
  /\ UNCHANGED <<db, calls, faults>>

\* the status update followed by the acceptance writes whatever the decision
RespondUpdateRequest_AlwaysAccept(h) ==
  /\ hs[h].pc = "r_request"
  /\ \/ /\ hs[h].status \in RequestStatus
        /\ db' = [db EXCEPT !.worker_requests =
                     [i \in DOMAIN @ |-> IF i = hs[h].id
                                           THEN [@[i] EXCEPT !.status = hs[h].status]
                                           ELSE @[i]]]
        /\ hs' = Goto(h, "r_project")
     \/ /\ hs[h].status \notin RequestStatus
        /\ hs' = Goto(h, "r_rollback")
        /\ UNCHANGED db
  /\ UNCHANGED <<snap, inTxn, calls, faults>>

\* UPDATE worker_requests SET status = ? WHERE id = ?
\* (the table's CHECK constraint rejects a status outside RequestStatus)
RespondUpdateRequest(h) ==
  /\ hs[h].pc = "r_request"
  /\ \/ /\ hs[h].status \in RequestStatus
        /\ db' = [db EXCEPT !.worker_requests =
                     [i \in DOMAIN @ |-> IF i = hs[h].id
                                           THEN [@[i] EXCEPT !.status = hs[h].status]
                                           ELSE @[i]]]
        /\ hs' = Goto(h, IF hs[h].status = "accepted" THEN "r_project" ELSE "r_commit")
        /\ UNCHANGED faults
     \/ /\ hs[h].status \notin RequestStatus
        /\ hs' = Goto(h, "r_rollback")
        /\ UNCHANGED <<db, faults>>
     \/ /\ MayFault
        /\ faults' = faults + 1
        /\ hs' = Goto(h, "r_rollback")
        /\ UNCHANGED db
  /\ UNCHANGED <<snap, inTxn, calls>>

\* UPDATE projects SET civil_engineer_id = ?, status = 'in_progress' WHERE id = ?
RespondUpdateProject(h) ==
  /\ hs[h].pc = "r_project"
  /\ \/ /\ db' = [db EXCEPT
                     !.civil_engineer_id =
                        [p \in DOMAIN @ |-> IF p = hs[h].request_project_id
                                              THEN hs[h].actor ELSE @[p]],
                     !.status =
                        [p \in DOMAIN @ |-> IF p = hs[h].request_project_id
                                              THEN "in_progress" ELSE @[p]]]
        /\ hs' = Goto(h, "r_worker")
        /\ UNCHANGED faults
     \/ /\ MayFault
        /\ faults' = faults + 1
        /\ hs' = Goto(h, "r_rollback")
        /\ UNCHANGED db
  /\ UNCHANGED <<snap, inTxn, calls>>

\* the acceptance without its INSERT INTO project_workers
RespondInsertWorker_Skip(h) ==
  /\ hs[h].pc = "r_worker"
  /\ hs' = Goto(h, "r_user")
  /\ UNCHANGED <<db, snap, inTxn, calls, faults>>

\* INSERT INTO project_workers (..., role = 'civil_engineer')
RespondInsertWorker(h) ==
  /\ hs[h].pc = "r_worker"
  /\ \/ /\ db' = [db EXCEPT !.project_workers = Append(@,
                     [project_id |-> hs[h].request_project_id, worker_id |-> hs[h].actor,
                      assigned_by |-> hs[h].actor, role |-> "civil_engineer"])]
        /\ hs' = Goto(h, "r_user")
        /\ UNCHANGED faults
     \/ /\ MayFault
        /\ faults' = faults + 1
        /\ hs' = Goto(h, "r_rollback")
        /\ UNCHANGED db
  /\ UNCHANGED <<snap, inTxn, calls>>

\* UPDATE users SET is_available = 0 WHERE id = ?
RespondUpdateUser(h) ==
  /\ hs[h].pc = "r_user"
  /\ \/ /\ db' = [db EXCEPT !.is_available[hs[h].actor] = FALSE]
        /\ hs' = Goto(h, "r_commit")
        /\ UNCHANGED faults
     \/ /\ MayFault
        /\ faults' = faults + 1
        /\ hs' = Goto(h, "r_rollback")
        /\ UNCHANGED db
  /\ UNCHANGED <<snap, inTxn, calls>>

RespondCommit(h) ==
  /\ hs[h].pc = "r_commit"
  /\ \/ /\ inTxn' = FALSE
        /\ hs' = Respond(h, OK200)
        /\ UNCHANGED faults
     \/ /\ MayFault
        /\ faults' = faults + 1
        /\ hs' = Goto(h, "r_rollback")
        /\ UNCHANGED inTxn
  /\ UNCHANGED <<db, snap, calls>>

RespondRollback(h) ==
  /\ hs[h].pc = "r_rollback"
  /\ db' = snap
  /\ inTxn' = FALSE
  /\ hs' = Respond(h, Internal)
  /\ UNCHANGED <<snap, calls, faults>>

RespondStep(h) ==
  \/ RespondBegin(h)
  \/ RespondUpdateRequest(h)
  \/ RespondUpdateProject(h)
  \/ RespondInsertWorker(h)
  \/ RespondUpdateUser(h)
  \/ RespondCommit(h)
  \/ RespondRollback(h)

(***************************************************************************)
(* POST /workers/assign                                                    *)
(***************************************************************************)
\* the role check alone, without the project lookup
AssignGetProject_AnyEngineer(h, actor, p, w, role) ==
  /\ Free(h)
  /\ calls' = calls + 1
  /\ LET start == [Blank EXCEPT !.op = "assign", !.actor = actor, !.project_id = p,
                                !.worker_id = w, !.role = role]
         user == authenticateToken(actor)
     IN  IF user.user_type # "worker" \/ user.sub_user_type # "civil_engineer"
           THEN hs' = [hs EXCEPT ![h] = [start EXCEPT !.pc = "done", !.res = Forbidden]]
           ELSE hs' = [hs EXCEPT ![h] = [start EXCEPT !.pc = "a_worker"]]
  /\ UNCHANGED <<db, snap, inTxn, faults>>

\* role check; SELECT * FROM projects WHERE id = ? AND civil_engineer_id = ?
AssignGetProject(h, actor, p, w, role) ==
  /\ Free(h)
  /\ calls' = calls + 1
  /\ LET start == [Blank EXCEPT !.op = "assign", !.actor = actor, !.project_id = p,
                                !.worker_id = w, !.role = role]
         user == authenticateToken(actor)
     IN  IF user.user_type # "worker" \/ user.sub_user_type # "civil_engineer"
           THEN hs' = [hs EXCEPT ![h] = [start EXCEPT !.pc = "done", !.res = Forbidden]]
           ELSE IF ~(ProjectExists(db, p) /\ db.civil_engineer_id[p] = user.id)
                  THEN hs' = [hs EXCEPT ![h] =
                                [start EXCEPT !.pc = "done", !.res = Forbidden]]
                  ELSE hs' = [hs EXCEPT ![h] = [start EXCEPT !.pc = "a_worker"]]
  /\ UNCHANGED <<db, snap, inTxn, faults>>

\* the worker lookup without "AND is_available = 1"
AssignGetWorker_AnyWorker(h) ==
  /\ hs[h].pc = "a_worker"
  /\ LET w == hs[h].worker_id
     IN  IF user_type(w) = "worker"
           THEN hs' = [hs EXCEPT ![h].pc = "a_begin",
                                 ![h].worker_sub = sub_user_type(w)]
           ELSE hs' = Respond(h, WorkerNotAvailable)
  /\ UNCHANGED <<db, snap, inTxn, calls, faults>>

\* SELECT * FROM users WHERE id = ? AND user_type = 'worker' AND is_available = 1
AssignGetWorker(h) ==
  /\ hs[h].pc = "a_worker"
  /\ LET w == hs[h].worker_id
     IN  IF user_type(w) = "worker" /\ db.is_available[w]
           THEN hs' = [hs EXCEPT ![h].pc = "a_begin",
                                 ![h].worker_sub = sub_user_type(w)]
           ELSE hs' = Respond(h, WorkerNotAvailable)
  /\ UNCHANGED <<db, snap, inTxn, calls, faults>>

AssignBegin(h) ==
  /\ hs[h].pc = "a_begin"
  /\ IF inTxn
       THEN /\ hs' = Respond(h, Internal)
            /\ UNCHANGED <<snap, inTxn>>
       ELSE /\ hs' = [hs EXCEPT ![h].pc = "a_insert", ![h].begun = 1]
            /\ snap' = db
            /\ inTxn' = TRUE
  /\ UNCHANGED <<db, calls, faults>>

\* the insert ignoring the role of the request body
AssignInsertWorker_SubRoleOnly(h) ==
  /\ hs[h].pc = "a_insert"
  /\ \/ /\ db' = [db EXCEPT !.project_workers = Append(@,
                     [project_id |-> hs[h].project_id, worker_id |-> hs[h].worker_id,
                      assigned_by |-> hs[h].actor, role |-> hs[h].worker_sub])]
        /\ hs' = Goto(h, "a_user")
        /\ UNCHANGED faults
     \/ /\ MayFault
        /\ faults' = faults + 1
        /\ hs' = Goto(h, "a_rollback")
        /\ UNCHANGED db
  /\ UNCHANGED <<snap, inTxn, calls>>

\* INSERT INTO project_workers (..., role || worker.sub_user_type)
AssignInsertWorker(h) ==
  /\ hs[h].pc = "a_insert"
  /\ \/ /\ db' = [db EXCEPT !.project_workers = Append(@,
                     [project_id |-> hs[h].project_id, worker_id |-> hs[h].worker_id,
                      assigned_by |-> hs[h].actor,
                      role |-> IF hs[h].role # "" THEN hs[h].role ELSE hs[h].worker_sub])]
        /\ hs' = Goto(h, "a_user")
        /\ UNCHANGED faults
     \/ /\ MayFault
        /\ faults' = faults + 1
        /\ hs' = Goto(h, "a_rollback")
        /\ UNCHANGED db
  /\ UNCHANGED <<snap, inTxn, calls>>

\* UPDATE users SET is_available = 0 WHERE id = ?
AssignUpdateUser(h) ==
  /\ hs[h].pc = "a_user"
  /\ \/ /\ db' = [db EXCEPT !.is_available[hs[h].worker_id] = FALSE]
        /\ hs' = Goto(h, "a_commit")
        /\ UNCHANGED faults
     \/ /\ MayFault
        /\ faults' = faults + 1
        /\ hs' = Goto(h, "a_rollback")
        /\ UNCHANGED db
  /\ UNCHANGED <<snap, inTxn, calls>>

AssignCommit(h) ==
  /\ hs[h].pc = "a_commit"
  /\ \/ /\ inTxn' = FALSE
        /\ hs' = Respond(h, OK200)
        /\ UNCHANGED faults
     \/ /\ MayFault
        /\ faults' = faults + 1
        /\ hs' = Goto(h, "a_rollback")
        /\ UNCHANGED inTxn
  /\ UNCHANGED <<db, snap, calls>>

AssignRollback(h) ==
  /\ hs[h].pc = "a_rollback"
  /\ db' = snap
  /\ inTxn' = FALSE
  /\ hs' = Respond(h, Internal)
  /\ UNCHANGED <<snap, calls, faults>>

AssignStep(h) ==
  \/ AssignGetWorker(h)
  \/ AssignBegin(h)
  \/ AssignInsertWorker(h)
  \/ AssignUpdateUser(h)
  \/ AssignCommit(h)
  \/ AssignRollback(h)

(***************************************************************************)
(* PUT /projects/:id                                                       *)
(***************************************************************************)
\* SELECT * FROM projects WHERE id = ?; owner-or-admin check
UpdateGetProject(h, actor, p, status) ==
  /\ Free(h)
  /\ calls' = calls + 1
  /\ LET start == [Blank EXCEPT !.op = "update", !.actor = actor, !.project_id = p,
                                !.status = status]
         user == authenticateToken(actor)
     IN  IF ~ProjectExists(db, p)
           THEN hs' = [hs EXCEPT ![h] = [start EXCEPT !.pc = "done", !.res = NotFound]]
           ELSE IF user.user_type # "admin" /\ created_by(p) # user.id
                  THEN hs' = [hs EXCEPT ![h] =
                                [start EXCEPT !.pc = "done", !.res = Forbidden]]
                  ELSE hs' = [hs EXCEPT ![h] = [start EXCEPT !.pc = "u_update"]]
  /\ UNCHANGED <<db, snap, inTxn, faults>>

\* UPDATE projects SET ..., status = ? WHERE id = ?
\* (the table's CHECK constraint rejects a status outside ProjectStatus)
UpdateProject(h) ==
  /\ hs[h].pc = "u_update"
  /\ IF hs[h].status \in ProjectStatus
       THEN /\ db' = [db EXCEPT !.status =
                        [p \in DOMAIN @ |-> IF p = hs[h].project_id
                                              THEN hs[h].status ELSE @[p]]]
            /\ hs' = Respond(h, OK200)
       ELSE /\ hs' = Respond(h, Internal)
            /\ UNCHANGED db
  /\ UNCHANGED <<snap, inTxn, calls, faults>>

(***************************************************************************)
(* The worker workflows together.                                          *)
(***************************************************************************)
RequestOwners == {"u1"}
RequestProjects == {"p1"}
RequestTargets == Engineers
Responders == Engineers \cup {"u1", "admin"}
RequestIds == 1..MaxRequests
Assigners == {"ce1"}
AssignTargets == {"ce2", "w1"}
Roles == {""}
Updaters == {"u1"}
UpdateStatuses == {"planning", "completed", "invalid"}

Next ==
  \E h \in Handlers :
    \/ /\ calls < MaxCalls
       /\ \/ \E actor \in RequestOwners, p \in RequestProjects, w \in RequestTargets :
               CreateGetProject(h, actor, p, w)
          \/ \E actor \in Responders, rid \in RequestIds, d \in Decisions :
               RespondGetRequest(h, actor, rid, d)
          \/ \E actor \in Assigners, p \in RequestProjects, w \in AssignTargets,
                role \in Roles :
               AssignGetProject(h, actor, p, w, role)
          \/ \E actor \in Updaters, p \in RequestProjects, s \in UpdateStatuses :
               UpdateGetProject(h, actor, p, s)
    \/ CreateStep(h)
    \/ RespondStep(h)
    \/ AssignStep(h)
    \/ UpdateProject(h)

Spec == Init /\ [][Next]_vars

(***************************************************************************)
(* Properties of the worker workflows (checked under Spec).                *)
(***************************************************************************)
\* the seeded state of SpecOrder is a state the worker workflows reach
OrderInitReachable == db = AcceptedDB /\ ~inTxn

Responded == {"accepted", "rejected"}

\* C3: a request that is accepted or rejected keeps that status for ever;
\* no later or concurrent Respond changes it again.
C3_StatusNeverReverses ==
  [][\A i \in 1..Len(committed.worker_requests) :
        committed.worker_requests[i].status \in Responded =>
          /\ i <= Len(committed'.worker_requests)
          /\ committed'.worker_requests[i].status = committed.worker_requests[i].status]_vars

\* rows of project_workers that record worker w as civil engineer of p
EngineerRows(d, p, w) ==
  {i \in 1..Len(d.project_workers) :
     /\ d.project_workers[i].project_id = p
     /\ d.project_workers[i].worker_id = w
     /\ d.project_workers[i].role = "civil_engineer"}

\* two answered Respond calls of the same worker for the same request id
RespondedTwice(g, h) ==
  /\ g # h
  /\ hs[g].op = "respond" /\ hs[h].op = "respond"
  /\ hs[g].pc = "done" /\ hs[h].pc = "done"
  /\ hs[g].id = hs[h].id
  /\ hs[g].actor = hs[h].actor
  /\ hs[g].status \in Responded /\ hs[h].status \in Responded

\* C4: of two Respond calls for the same request id only one succeeds (the
\* other is answered "already responded") and the acceptance leaves a single
\* assignment row.
C4_SecondRespondConflicts ==
  \A g \in Handlers, h \in Handlers :
    RespondedTwice(g, h) =>
      /\ ~(hs[g].res = OK200 /\ hs[h].res = OK200)
      /\ hs[h].res = OK200 =>
            Cardinality(EngineerRows(db, hs[h].request_project_id, hs[h].actor)) <= 1

\* C5: a project whose civil_engineer_id is w has exactly one project_workers
\* row with role civil_engineer for (project, w).
C5_OneEngineerRow ==
  \A p \in DOMAIN committed.civil_engineer_id :
    committed.civil_engineer_id[p] # NULL =>
      Cardinality(EngineerRows(committed, p, committed.civil_engineer_id[p])) = 1

\* C7: once a project's civil_engineer_id is set it never changes.
C7_EngineerSetOnce ==
  [][\A p \in DOMAIN committed.civil_engineer_id :
        committed.civil_engineer_id[p] # NULL =>
          /\ p \in DOMAIN committed'.civil_engineer_id
          /\ committed'.civil_engineer_id[p] = committed.civil_engineer_id[p]]_vars

\* C8: a project with a civil engineer is never in status planning.
C8_EngineerImpliesNotPlanning ==
  \A p \in DOMAIN committed.civil_engineer_id :
    committed.civil_engineer_id[p] # NULL => committed.status[p] # "planning"

\* C9: at most one pending request per (project, worker) pair.
C9_OnePendingPerPair ==
  \A i \in 1..Len(committed.worker_requests), j \in 1..Len(committed.worker_requests) :
    ( /\ i # j
      /\ committed.worker_requests[i].status = "pending"
      /\ committed.worker_requests[j].status = "pending"
      /\ committed.worker_requests[i].project_id = committed.worker_requests[j].project_id )
    => committed.worker_requests[i].worker_id # committed.worker_requests[j].worker_id

\* an accepting Respond that opened its transaction answers in this step
AcceptAnswers(h) ==
  /\ hs[h].op = "respond"
  /\ hs[h].status = "accepted"
  /\ hs[h].begun = 1
  /\ hs[h].pc # "done"
  /\ hs'[h].pc = "done"

\* the four effects of the acceptance handled by h, in store d
AcceptEffects(d, h) ==
  /\ hs[h].id \in 1..Len(d.worker_requests)
  /\ d.worker_requests[hs[h].id].status = "accepted"
  /\ ProjectExists(d, hs[h].request_project_id)
  /\ d.civil_engineer_id[hs[h].request_project_id] = hs[h].actor
  /\ EngineerRows(d, hs[h].request_project_id, hs[h].actor) # {}
  /\ ~d.is_available[hs[h].actor]

\* C6: an accepting Respond is all-or-nothing: answered 200 with the request
\* accepted, the project's civil engineer set, the assignment row and the
\* availability flag all committed, or answered with an error and the store
\* as it was when the transaction began.
C6_AcceptAllOrNothing ==
  [][\A h \in Handlers :
        AcceptAnswers(h) =>
          /\ ~inTxn'
          /\ \/ hs'[h].res = OK200 /\ AcceptEffects(db', h)
             \/ hs'[h].res = Internal /\ db' = snap]_vars

\* C10: CreateRequest answers Conflict and adds no row when a pending request
\* for the pair exists; when none is pending (the earlier ones were rejected)
\* it inserts a new pending request and answers 201.
C10_PendingBlocksRejectedDoesNot ==
  [][\A h \in Handlers :
        /\ (hs[h].pc = "c_existing" /\ hs'[h].pc # "c_existing") =>
              IF \E i \in 1..Len(db.worker_requests) :
                    /\ db.worker_requests[i].project_id = hs[h].project_id
                    /\ db.worker_requests[i].worker_id = hs[h].worker_id
                    /\ db.worker_requests[i].status = "pending"
                THEN /\ hs'[h].pc = "done"
                     /\ hs'[h].res = RequestAlreadySent
                     /\ db' = db
                ELSE hs'[h].pc = "c_insert" /\ db' = db
        /\ (hs[h].pc = "c_insert" /\ hs'[h].pc # "c_insert") =>
              /\ hs'[h].pc = "done"
              /\ hs'[h].res = Created201
              /\ db'.worker_requests = Append(db.worker_requests,
                    [project_id |-> hs[h].project_id, worker_id |-> hs[h].worker_id,
                     requested_by |-> hs[h].actor, status |-> "pending"])]_vars

\* a duplicate was refused while the first request was pending, and after
\* its rejection a new request for the same pair was recorded
C10_Witness ==
  \E g \in Handlers, h \in Handlers :
    /\ hs[g].op = "create" /\ hs[g].pc = "done" /\ hs[g].res = RequestAlreadySent
    /\ hs[h].op = "create" /\ hs[h].pc = "done" /\ hs[h].res = Created201
    /\ hs[h].id = 2
    /\ hs[g].project_id = hs[h].project_id /\ hs[g].worker_id = hs[h].worker_id
    /\ Len(db.worker_requests) = 2
    /\ db.worker_requests[1].status = "rejected"
    /\ db.worker_requests[2].status = "pending"
    /\ db.worker_requests[1].project_id = hs[h].project_id
    /\ db.worker_requests[1].worker_id = hs[h].worker_id
    /\ db.worker_requests[2].project_id = hs[h].project_id
    /\ db.worker_requests[2].worker_id = hs[h].worker_id

\* rows of project_workers naming worker w
WorkerRows(d, w) ==
  {i \in 1..Len(d.project_workers) : d.project_workers[i].worker_id = w}

\* C11: every worker with is_available = 0 has at least one project_workers
\* row, in every state the connection shows and in every committed state.
C11_UnavailableHasAssignment ==
  /\ \A w \in Workers : ~db.is_available[w] => WorkerRows(db, w) # {}
  /\ \A w \in Workers : ~committed.is_available[w] => WorkerRows(committed, w) # {}

\* a worker is unavailable after an acceptance and an assignment, and a
\* transaction of Respond or Assign has failed and was rolled back
C11_Witness ==
  /\ ~inTxn
  /\ \E w \in Engineers : ~db.is_available[w] /\ WorkerRows(db, w) # {}
  /\ \E w \in Workers : \E i \in WorkerRows(db, w) :
        ~db.is_available[w] /\ db.project_workers[i].assigned_by # w
  /\ \E h \in Handlers :
        hs[h].pc = "done" /\ hs[h].res = Internal /\ hs[h].begun = 1

\* handler h receives a call of kind op in this step
Arrives(h, op) == Free(h) /\ calls' = calls + 1 /\ hs'[h].op = op /\ hs'[h] # hs[h]

\* C20: a Respond by anyone but the request's target worker fails, with
\* Forbidden for a non-worker and NotFound for another worker, and leaves the
\* request, the project, the assignments and the availability unchanged.
C20_OnlyTargetResponds ==
  [][\A h \in Handlers :
        ( /\ Arrives(h, "respond")
          /\ hs'[h].id \in 1..Len(db.worker_requests)
          /\ db.worker_requests[hs'[h].id].worker_id # hs'[h].actor )
        => /\ hs'[h].pc = "done"
           /\ hs'[h].res = IF hs'[h].actor \in Workers THEN NotFound ELSE Forbidden
           /\ db' = db]_vars

\* a client and another engineer were both refused on a request that is
\* still pending for its target
C20_Witness ==
  \E g \in Handlers, h \in Handlers :
    /\ hs[g].op = "respond" /\ hs[g].pc = "done" /\ hs[g].res = Forbidden
    /\ hs[h].op = "respond" /\ hs[h].pc = "done" /\ hs[h].res = NotFound
    /\ hs[g].id = hs[h].id
    /\ hs[h].id \in 1..Len(db.worker_requests)
    /\ db.worker_requests[hs[h].id].worker_id \notin {hs[g].actor, hs[h].actor}
    /\ db.worker_requests[hs[h].id].status = "pending"
    /\ db.project_workers = << >>

\* handler h takes a step of a rejecting Respond other than its ROLLBACK
RejectSteps(h) ==
  /\ hs'[h] # hs[h]
  /\ hs'[h].op = "respond"
  /\ hs'[h].status = "rejected"
  /\ hs[h].pc # "r_rollback"

C16_OrderFailurePrecedence ==
  [][\A h \in Handlers :
        /\ Arrives(h, "order") =>
              /\ db' = db
              /\ IF /\ hs'[h].project_id \in DOMAIN db.civil_engineer_id
                    /\ db.civil_engineer_id[hs'[h].project_id] = hs'[h].actor
                   THEN hs'[h].pc = "o_material"
                   ELSE hs'[h].pc = "done" /\ hs'[h].res = Forbidden
        /\ (hs[h].pc = "o_material" /\ hs'[h] # hs[h]) =>
              /\ db' = db
              /\ IF hs[h].material_id \notin Materials
                   THEN hs'[h].pc = "done" /\ hs'[h].res = NotFound
                   ELSE IF hs[h].quantity > db.stock_quantity[hs[h].material_id]
                          THEN hs'[h].pc = "done" /\ hs'[h].res = InsufficientStock
                          ELSE hs'[h].pc = "o_begin"]_vars

\* the three failures were answered and nothing was written
C16_Witness ==
  /\ \E h \in Handlers : OrderDone(h) /\ hs[h].res = InsufficientStock
  /\ \E h \in Handlers : OrderDone(h) /\ hs[h].res \in {Forbidden, NotFound}
  /\ db = AcceptedDB

\* the order row written by handler h
OrderRow(h) ==
  [project_id |-> hs[h].project_id, material_id |-> hs[h].material_id,
   quantity |-> hs[h].quantity, total_cost |-> hs[h].total_cost,
   ordered_by |-> hs[h].actor]

\* C17: a successful Order has inserted exactly one row whose total_cost is
\* quantity times the price read at the stock check and has lowered that
\* material's stock by exactly quantity, both committed together; a failed
\* write leaves neither and the caller is answered with an error.
C17_OrderAtomic ==
  [][\A h \in Handlers :
        /\ (hs[h].pc = "o_material" /\ hs'[h].pc = "o_begin") =>
              hs'[h].total_cost = hs[h].quantity * db.price_per_unit[hs[h].material_id]
        /\ (hs[h].pc = "o_insert" /\ hs'[h].pc = "o_update") =>
              /\ db'.project_materials = Append(db.project_materials, OrderRow(h))
              /\ db'.stock_quantity = db.stock_quantity
        /\ (hs[h].pc = "o_update" /\ hs'[h].pc = "o_commit") =>
              /\ db'.project_materials = db.project_materials
              /\ db'.stock_quantity[hs[h].material_id] =
                    db.stock_quantity[hs[h].material_id] - hs[h].quantity
        /\ (hs[h].op = "order" /\ hs[h].begun = 1 /\ hs[h].pc # "done"
                /\ hs'[h].pc = "done") =>
              /\ ~inTxn'
              /\ \/ /\ hs'[h].res = OK200
                    /\ db'.project_materials = Append(snap.project_materials, OrderRow(h))
                    /\ db'.stock_quantity =
                         [snap.stock_quantity EXCEPT ![hs[h].material_id] = @ - hs[h].quantity]
                 \/ /\ hs'[h].res = Internal
                    /\ db'.project_materials = snap.project_materials
                    /\ db'.stock_quantity = snap.stock_quantity]_vars

\* one order committed (row and decrement) and one order rolled back
C17_Witness ==
  \E g \in Handlers, h \in Handlers :
    /\ OrderDone(g) /\ hs[g].res = OK200 /\ hs[g].quantity = 2
    /\ OrderDone(h) /\ hs[h].res = Internal /\ hs[h].begun = 1
    /\ ~inTxn
    /\ db.project_materials = << OrderRow(g) >>
    /\ hs[g].total_cost = 2 * InitPrice
    /\ db.stock_quantity[hs[g].material_id] = InitStock - 2

\* C18: every order row has quantity > 0; an Order with quantity 0 or less
\* inserts no row and changes no stock.
C18_OrderQuantityPositive ==
  /\ \A i \in 1..Len(committed.project_materials) :
        committed.project_materials[i].quantity > 0
  /\ \A m \in Materials : committed.stock_quantity[m] <= InitStock

(***************************************************************************)
(* POST /workers/assign with every kind of caller (SpecAssign).            *)
(***************************************************************************)
InitAssign ==
  /\ db = TwoEngineersDB
  /\ snap = TwoEngineersDB
  /\ inTxn = FALSE
  /\ hs = [h \in Handlers |-> Blank]
  /\ calls = 0
  /\ faults = 0

AssignCallers == {"admin", "u1", "ce1", "ce2", "w1"}
AssignRoles == {"", "helper"}

NextAssign ==
  \E h \in Handlers :
    \/ /\ calls < MaxAssignCalls
       /\ \E actor \in AssignCallers, p \in Projects, w \in Workers, role \in AssignRoles :
            AssignGetProject(h, actor, p, w, role)
    \/ AssignStep(h)

SpecAssign == InitAssign /\ [][NextAssign]_vars

\* C12 (as stated): an Assign call arriving while its target worker is
\* unavailable is answered Conflict whoever the caller is, so never Forbidden.
C12_ConflictForEveryCaller ==
  [][\A h \in Handlers :
        (Arrives(h, "assign") /\ ~db.is_available[hs'[h].worker_id]) =>
           ~(hs'[h].pc = "done" /\ hs'[h].res = Forbidden)]_vars

\* actor is the civil engineer recorded on project p
IsEngineerOf(d, actor, p) ==
  /\ actor \in Engineers
  /\ p \in DOMAIN d.civil_engineer_id
  /\ d.civil_engineer_id[p] = actor

\* C12 (amended): an Assign call never creates a row for a worker it finds
\* unavailable: a caller who is not the project's civil engineer is answered
\* Forbidden before the worker is read, the project's civil engineer is
\* answered Conflict when the worker read has is_available = 0; no write.
C12_UnavailableNeverAssigned ==
  [][\A h \in Handlers :
        /\ (Arrives(h, "assign") /\ ~db.is_available[hs'[h].worker_id]) =>
              /\ db' = db
              /\ IF IsEngineerOf(db, hs'[h].actor, hs'[h].project_id)
                   THEN hs'[h].pc = "a_worker"
                   ELSE hs'[h].pc = "done" /\ hs'[h].res = Forbidden
        /\ (hs[h].pc = "a_worker" /\ hs'[h] # hs[h]
               /\ ~db.is_available[hs[h].worker_id]) =>
              /\ db' = db
              /\ hs'[h].pc = "done"
              /\ hs'[h].res = WorkerNotAvailable]_vars

\* the project's engineer got Conflict and another caller Forbidden for the
\* same unavailable worker, and no row was added
C12_Witness ==
  \E g \in Handlers, h \in Handlers :
    /\ hs[g].op = "assign" /\ hs[g].pc = "done" /\ hs[g].res = WorkerNotAvailable
    /\ hs[h].op = "assign" /\ hs[h].pc = "done" /\ hs[h].res = Forbidden
    /\ hs[g].worker_id = hs[h].worker_id
    /\ ~db.is_available[hs[g].worker_id]
    /\ db.project_workers = TwoEngineersDB.project_workers

\* C13: two Assign calls by the civil engineers of two different projects for
\* the same worker never both succeed; the worker gets one assignment row.
C13_OneAssignWins ==
  \A g \in Handlers, h \in Handlers :
    ( /\ hs[g].op = "assign" /\ hs[h].op = "assign"
      /\ hs[g].pc = "done" /\ hs[h].pc = "done"
      /\ hs[g].project_id # hs[h].project_id
      /\ hs[g].worker_id = hs[h].worker_id )
    => /\ ~(hs[g].res = OK200 /\ hs[h].res = OK200)
       /\ Cardinality(WorkerRows(committed, hs[g].worker_id)) <= 1

(***************************************************************************)
(* GET /materials/project/:projectId, GET /milestones/project/:projectId,  *)
(* GET /workers/project/:projectId                                         *)
(***************************************************************************)
ReadKinds == {"materials", "milestones", "workers"}

\* the membership lookup matching a row of any project
workerInProject_AnyProject(d, p, w) ==
  \E i \in 1..Len(d.project_workers) : d.project_workers[i].worker_id = w

\* SELECT * FROM project_workers WHERE project_id = ? AND worker_id = ?
workerInProject(d, p, w) ==
  \E i \in 1..Len(d.project_workers) :
     /\ d.project_workers[i].project_id = p
     /\ d.project_workers[i].worker_id = w

\* the materials check without its owner test
materialsAccess_NoOwnerCheck(user, d, p) ==
  IF ~ProjectExists(d, p) THEN NotFound
  ELSE IF user.user_type = "worker" /\ d.civil_engineer_id[p] # user.id
         THEN "rd_member"
         ELSE "rd_list"

\* materials.js: project lookup, owner check for users, engineer check for
\* workers (who otherwise need a project_workers row)
materialsAccess(user, d, p) ==
  IF ~ProjectExists(d, p) THEN NotFound
  ELSE IF user.user_type = "user" /\ created_by(p) # user.id THEN Forbidden
  ELSE IF user.user_type = "worker" /\ d.civil_engineer_id[p] # user.id
         THEN "rd_member"
         ELSE "rd_list"

\* milestones.js: the same three checks
milestonesAccess(user, d, p) ==
  IF ~ProjectExists(d, p) THEN NotFound
  ELSE IF user.user_type = "user" /\ created_by(p) # user.id THEN Forbidden
  ELSE IF user.user_type = "worker" /\ d.civil_engineer_id[p] # user.id
         THEN "rd_member"
         ELSE "rd_list"

\* the workers check deciding authorization before the project lookup
workersAccess_AuthorizeFirst(user, d, p) ==
  IF user.user_type = "user" /\ created_by(p) # user.id THEN Forbidden
  ELSE IF ~ProjectExists(d, p) THEN NotFound
  ELSE IF user.user_type = "worker" /\ d.civil_engineer_id[p] # user.id
         THEN "rd_member"
         ELSE "rd_list"

\* workers.js: the same three checks
workersAccess(user, d, p) ==
  IF ~ProjectExists(d, p) THEN NotFound
  ELSE IF user.user_type = "user" /\ created_by(p) # user.id THEN Forbidden
  ELSE IF user.user_type = "worker" /\ d.civil_engineer_id[p] # user.id
         THEN "rd_member"
         ELSE "rd_list"

ReadAccess(kind, user, d, p) ==
  CASE kind = "materials"  -> materialsAccess(user, d, p)
    [] kind = "milestones" -> milestonesAccess(user, d, p)
    [] kind = "workers"    -> workersAccess(user, d, p)

\* SELECT * FROM projects WHERE id = ?; 404; 403 for a user who is not owner
ReadGetProject(h, kind, actor, p) ==
  /\ Free(h)
  /\ calls' = calls + 1
  /\ LET start == [Blank EXCEPT !.op = kind, !.actor = actor, !.project_id = p]
         a == ReadAccess(kind, authenticateToken(actor), db, p)
     IN  IF a \in {NotFound, Forbidden}
           THEN hs' = [hs EXCEPT ![h] = [start EXCEPT !.pc = "done", !.res = a]]
           ELSE hs' = [hs EXCEPT ![h] = [start EXCEPT !.pc = a]]
  /\ UNCHANGED <<db, snap, inTxn, faults>>

\* workerInProject lookup of a worker who is not the civil engineer
ReadGetMembership(h) ==
  /\ hs[h].pc = "rd_member"
  /\ IF workerInProject(db, hs[h].project_id, hs[h].actor)
       THEN hs' = Goto(h, "rd_list")
       ELSE hs' = Respond(h, Forbidden)
  /\ UNCHANGED <<db, snap, inTxn, calls, faults>>

\* db.all(...) of the sub-resource rows; res.json
ReadList(h) ==
  /\ hs[h].pc = "rd_list"
  /\ hs' = Respond(h, OK200)
  /\ UNCHANGED <<db, snap, inTxn, calls, faults>>

ReadProjects == Projects \cup {"p9"}

NextRead ==
  \E h \in Handlers :
    \/ /\ calls < MaxReadCalls
       /\ \/ \E kind \in ReadKinds, actor \in Users, p \in ReadProjects :
               ReadGetProject(h, kind, actor, p)
          \/ \E w \in AssignTargets : AssignGetProject(h, "ce1", "p1", w, "")
    \/ ReadGetMembership(h)
    \/ ReadList(h)
    \/ AssignStep(h)

SpecRead == InitOrder /\ [][NextRead]_vars

\* handler h of a sub-resource read is let through to the listing in this step
ReadGranted(h) ==
  /\ hs'[h] # hs[h]
  /\ hs'[h].op \in ReadKinds
  /\ hs'[h].pc = "rd_list"

\* actor owns p, is its civil engineer, or has an assignment row for it
Related(d, actor, p) ==
  \/ created_by(p) = actor
  \/ d.civil_engineer_id[p] = actor
  \/ \E i \in 1..Len(d.project_workers) :
        d.project_workers[i].project_id = p /\ d.project_workers[i].worker_id = actor

\* C14 (as stated): a read is let through only for the owner, the civil
\* engineer or an assigned worker; an admin without such a relation is not.
C14_OnlyRelatedActorsRead ==
  [][\A h \in Handlers :
        ReadGranted(h) => Related(db, hs'[h].actor, hs'[h].project_id)]_vars

\* C14 (amended): a read is let through only for the owner, the civil
\* engineer, an assigned worker or an admin, and then answered 200.
C14_OnlyRelatedOrAdminRead ==
  [][\A h \in Handlers :
        /\ ReadGranted(h) =>
              \/ Related(db, hs'[h].actor, hs'[h].project_id)
              \/ hs'[h].actor \in Admins
        /\ (hs'[h].op \in ReadKinds /\ hs'[h].pc = "done" /\ hs'[h].res = OK200
               /\ hs'[h] # hs[h]) => hs[h].pc = "rd_list"]_vars

\* an assigned worker and an admin with no relation to p1 both read it
C14_Witness ==
  \E g \in Handlers, h \in Handlers :
    /\ hs[g].op \in ReadKinds /\ hs[g].pc = "done" /\ hs[g].res = OK200
    /\ hs[g].actor \in Admins /\ hs[g].project_id = "p1"
    /\ hs[h].op \in ReadKinds /\ hs[h].pc = "done" /\ hs[h].res = OK200
    /\ hs[h].actor \in Trades /\ hs[h].project_id = "p1"
    /\ Related(db, hs[h].actor, "p1")

\* C15: on an existing project a client who is not the owner is answered
\* Forbidden at once, and a worker who is not the civil engineer is answered
\* Forbidden when the membership lookup finds no row; for all three reads.
C15_UnrelatedActorsForbidden ==
  [][\A h \in Handlers : \A kind \in ReadKinds :
        /\ ( /\ Arrives(h, kind)
             /\ hs'[h].project_id \in DOMAIN db.civil_engineer_id
             /\ hs'[h].actor \in Clients
             /\ created_by(hs'[h].project_id) # hs'[h].actor )
           => hs'[h].pc = "done" /\ hs'[h].res = Forbidden /\ db' = db
        /\ ( /\ Arrives(h, kind)
             /\ hs'[h].project_id \in DOMAIN db.civil_engineer_id
             /\ hs'[h].actor \in Workers
             /\ db.civil_engineer_id[hs'[h].project_id] # hs'[h].actor )
           => hs'[h].pc = "rd_member" /\ db' = db
        /\ ( /\ hs[h].op = kind /\ hs[h].pc = "rd_member" /\ hs'[h] # hs[h]
             /\ ~\E i \in 1..Len(db.project_workers) :
                    /\ db.project_workers[i].project_id = hs[h].project_id
                    /\ db.project_workers[i].worker_id = hs[h].actor )
           => hs'[h].pc = "done" /\ hs'[h].res = Forbidden /\ db' = db]_vars

\* a worker assigned to p1 only was refused on p2, and a client was refused
\* on a project of another client
C15_Witness ==
  \E g \in Handlers, h \in Handlers :
    /\ hs[g].op \in ReadKinds /\ hs[g].pc = "done" /\ hs[g].res = Forbidden
    /\ hs[g].actor \in Workers /\ hs[g].project_id = "p2"
    /\ Related(db, hs[g].actor, "p1") /\ ~Related(db, hs[g].actor, "p2")
    /\ hs[h].op \in ReadKinds /\ hs[h].pc = "done" /\ hs[h].res = Forbidden
    /\ hs[h].actor \in Clients /\ ~Related(db, hs[h].actor, hs[h].project_id)
    /\ hs[h].op # hs[g].op

(***************************************************************************)
(* POST /projects/:id/request-worker with every kind of caller and target  *)
(* (checked under SpecCreate, which starts from AcceptedDB).               *)
(***************************************************************************)
CreateCallers == {"u1", "u2", "admin"}
CreateProjects == Projects \cup {"p9"}
CreateTargets == Workers \cup {"u2"}
CreateResponders == {"ce2"}
CreateDecisions == {"accepted", "rejected"}

NextCreate ==
  \E h \in Handlers :
    \/ /\ calls < MaxCreateCalls
       /\ \/ \E actor \in CreateCallers, p \in CreateProjects, w \in CreateTargets :
               CreateGetProject(h, actor, p, w)
          \/ \E actor \in CreateResponders, rid \in RequestIds, d \in CreateDecisions :
               RespondGetRequest(h, actor, rid, d)
    \/ CreateStep(h)
    \/ RespondStep(h)

SpecCreate == InitOrder /\ [][NextCreate]_vars

\* the target is a worker of sub-role civil_engineer who is available in d
EligibleEngineer(d, w) ==
  /\ w \in Workers
  /\ sub_user_type(w) = "civil_engineer"
  /\ d.is_available[w]

\* C21: CreateRequest answers NotFound for an absent project, else Forbidden
\* for a caller who is not the owner, else BadRequest for a target who is
\* not an available civil engineer; the step answering 201 appends exactly
\* one pending request for (project, worker) and changes nothing else; every
\* other step of the handler leaves the store unchanged.
C21_CreateOutcomes ==
  [][\A h \in Handlers :
        /\ Arrives(h, "create") =>
              /\ db' = db
              /\ IF hs'[h].project_id \notin Projects
                   THEN hs'[h].pc = "done" /\ hs'[h].res = NotFound
                   ELSE IF created_by(hs'[h].project_id) # hs'[h].actor
                          THEN hs'[h].pc = "done" /\ hs'[h].res = Forbidden
                          ELSE hs'[h].pc = "c_worker"
        /\ ( /\ hs[h].pc = "c_worker" /\ hs'[h] # hs[h]
             /\ ~EligibleEngineer(db, hs[h].worker_id) )
           => hs'[h].pc = "done" /\ hs'[h].res = WorkerNotAvailable
        /\ (hs'[h] # hs[h] /\ hs'[h].op = "create") =>
              IF hs'[h].pc = "done" /\ hs'[h].res = Created201
                THEN /\ hs[h].pc = "c_insert"
                     /\ db' = [db EXCEPT !.worker_requests = Append(@,
                                  [project_id |-> hs[h].project_id,
                                   worker_id |-> hs[h].worker_id,
                                   requested_by |-> hs[h].actor,
                                   status |-> "pending"])]
                     /\ hs[h].project_id \in Projects
                     /\ created_by(hs[h].project_id) = hs[h].actor
                     /\ sub_user_type(hs[h].worker_id) = "civil_engineer"
                ELSE db' = db]_vars

\* one call was answered 201 and added the only new row; another was
\* refused because its target is a worker of another trade
C21_Witness ==
  \E g \in Handlers, h \in Handlers :
    /\ hs[g].op = "create" /\ hs[g].pc = "done" /\ hs[g].res = Created201
    /\ hs[h].op = "create" /\ hs[h].pc = "done"
    /\ hs[h].res = WorkerNotAvailable /\ hs[h].worker_id \in Trades
    /\ Len(db.worker_requests) = Len(AcceptedDB.worker_requests) + 1

(***************************************************************************)
(* POST /workers/assign while the project's engineer is being replaced     *)
(* (checked under SpecReassign: ce1 is the engineer of p1, the owner sends *)
(* ce2 a request for p1 and ce2 answers it).                               *)
(***************************************************************************)
ReassignCallers == {"ce1", "ce2", "w1", "u1"}
ReassignTargets == {"w1"}

NextReassign ==
  \E h \in Handlers :
    \/ /\ calls < MaxReassignCalls
       /\ \/ CreateGetProject(h, "u1", "p1", "ce2")
          \/ \E rid \in RequestIds, d \in CreateDecisions :
               RespondGetRequest(h, "ce2", rid, d)
          \/ \E actor \in ReassignCallers, p \in Projects, w \in ReassignTargets :
               AssignGetProject(h, actor, p, w, "")
    \/ CreateStep(h)
    \/ RespondStep(h)
    \/ AssignStep(h)

SpecReassign == InitOrder /\ [][NextReassign]_vars

\* C22: an Assign call whose caller is not the civil engineer recorded on
\* the named project when the call is authorized is answered Forbidden in
\* that step, writes nothing, and takes no further step; Forbidden is
\* answered by no other step of the handler.
C22_NonEngineerForbidden ==
  [][\A h \in Handlers :
        /\ ( /\ Arrives(h, "assign")
             /\ ~IsEngineerOf(db, hs'[h].actor, hs'[h].project_id) )
           => /\ hs'[h].pc = "done"
              /\ hs'[h].res = Forbidden
              /\ db'.project_workers = db.project_workers
              /\ db'.is_available = db.is_available
              /\ db' = db
        /\ ( /\ hs'[h] # hs[h] /\ hs'[h].op = "assign" /\ ~Free(h) )
           => hs'[h].res # Forbidden]_vars

\* ce1 was the engineer of p1 (its civil_engineer row is still there), ce2
\* has replaced ce1, and ce1's Assign for p1 was answered Forbidden
C22_Witness ==
  \E h \in Handlers :
    /\ hs[h].op = "assign" /\ hs[h].pc = "done" /\ hs[h].res = Forbidden
    /\ hs[h].actor = "ce1" /\ hs[h].project_id = "p1"
    /\ ~inTxn
    /\ db.civil_engineer_id["p1"] = "ce2"
    /\ EngineerRows(db, "p1", "ce1") # {}
    /\ WorkerRows(db, "w1") = {}

\* the project_workers row an Assign call inserts
AssignRow(h) ==
  [project_id |-> hs[h].project_id, worker_id |-> hs[h].worker_id,
   assigned_by |-> hs[h].actor,
   role |-> IF hs[h].role # "" THEN hs[h].role ELSE sub_user_type(hs[h].worker_id)]

\* C23: an Assign answered 200 has committed exactly one new row for
\* (project, worker), with the supplied role or else the worker's sub-role,
\* together with is_available = 0 for that worker; an Assign whose
\* transaction failed leaves neither write and is answered with an error.
C23_AssignAtomic ==
  [][\A h \in Handlers :
        /\ (hs[h].pc = "a_insert" /\ hs'[h].pc = "a_user") =>
              /\ db'.project_workers = Append(db.project_workers, AssignRow(h))
              /\ db'.is_available = db.is_available
        /\ (hs[h].pc = "a_user" /\ hs'[h].pc = "a_commit") =>
              /\ db'.project_workers = db.project_workers
              /\ db'.is_available = [db.is_available EXCEPT ![hs[h].worker_id] = FALSE]
        /\ (hs[h].op = "assign" /\ hs[h].begun = 1 /\ hs[h].pc # "done"
                /\ hs'[h].pc = "done") =>
              /\ ~inTxn'
              /\ \/ /\ hs'[h].res = OK200
                    /\ db'.project_workers = Append(snap.project_workers, AssignRow(h))
                    /\ db'.is_available =
                         [snap.is_available EXCEPT ![hs[h].worker_id] = FALSE]
                 \/ /\ hs'[h].res = Internal
                    /\ db'.project_workers = snap.project_workers
                    /\ db'.is_available = snap.is_available
        /\ (hs'[h].op = "assign" /\ hs'[h] # hs[h] /\ hs'[h].pc = "done"
                /\ hs'[h].res = OK200) => hs[h].pc = "a_commit"]_vars

\* one Assign committed its row (role defaulted to the worker's sub-role)
\* and the flag, one Assign was rolled back and left nothing
C23_Witness ==
  \E g \in Handlers, h \in Handlers :
    /\ hs[g].op = "assign" /\ hs[g].pc = "done" /\ hs[g].res = OK200
    /\ hs[g].role = ""
    /\ hs[h].op = "assign" /\ hs[h].pc = "done" /\ hs[h].res = Internal
    /\ hs[h].begun = 1
    /\ ~inTxn
    /\ db.project_workers = Append(TwoEngineersDB.project_workers, AssignRow(g))
    /\ AssignRow(g).role = "painter"
    /\ ~db.is_available[hs[g].worker_id]

(***************************************************************************)
(* Respond, Assign and Order side by side, every awaited statement         *)
(* eventually resolving (checked under SpecLive).                          *)
(***************************************************************************)
LiveQuantities == {1, 2}

LiveStep(h) ==
  \/ CreateStep(h)
  \/ RespondStep(h)
  \/ AssignStep(h)
  \/ OrderStep(h)

NextLive ==
  \E h \in Handlers :
    \/ /\ calls < MaxLiveCalls
       /\ \/ CreateGetProject(h, "u1", "p1", "ce2")
          \/ \E rid \in RequestIds, d \in Decisions : RespondGetRequest(h, "ce2", rid, d)
          \/ AssignGetProject(h, "ce1", "p1", "w1", "")
          \/ \E q \in LiveQuantities : OrderGetProject(h, "ce1", "p1", "m1", q)
    \/ LiveStep(h)

\* the event loop resumes every handler whose awaited statement has resolved
SpecLive ==
  /\ InitOrder
  /\ [][NextLive]_vars
  /\ \A h \in Handlers : WF_vars(LiveStep(h))

TxnOps == {"respond", "assign", "order"}
BeginLabels == {"r_begin", "a_begin", "o_begin"}
CommitLabels == {"r_commit", "a_commit", "o_commit"}
RollbackLabels == {"r_rollback", "a_rollback", "o_rollback"}

\* C24: every Respond, Assign or Order in flight eventually completes; it
\* answers exactly once, when it completes; it begins at most one
\* transaction; a statement that fails inside the transaction sends the
\* handler to ROLLBACK, which restores the store as of BEGIN and answers
\* with the error.
C24_CompletesOnceNoRetry ==
  /\ \A h \in Handlers :
        (hs[h].op \in TxnOps /\ ~Free(h)) ~> (hs[h].pc = "done")
  /\ [][\A h \in Handlers :
          (hs'[h] # hs[h] /\ hs[h].op \in TxnOps /\ ~Free(h)) =>
             /\ hs[h].res = ""
             /\ (hs'[h].res # "") <=> (hs'[h].pc = "done")
             /\ (hs[h].pc \in BeginLabels) =>
                   /\ hs[h].begun = 0
                   /\ (inTxn' /\ ~inTxn) <=> (hs'[h].begun = 1)
                   /\ inTxn => (hs'[h].pc = "done" /\ hs'[h].res = Internal /\ db' = db)
             /\ (hs[h].pc \notin BeginLabels) => hs'[h].begun = hs[h].begun
             /\ (hs[h].begun = 1) => hs'[h].pc \notin BeginLabels
             /\ (faults' # faults) => hs'[h].pc \in RollbackLabels
             /\ (hs[h].pc \in RollbackLabels) =>
                   /\ hs[h].begun = 1
                   /\ hs'[h].pc = "done" /\ hs'[h].res = Internal
                   /\ db' = snap /\ ~inTxn'
             /\ (hs[h].begun = 1 /\ hs'[h].pc = "done" /\ hs'[h].res = OK200) =>
                   hs[h].pc \in CommitLabels]_vars

\* one transaction failed, was rolled back and answered 500; another call
\* then ran its own transaction to the end
C24_Witness ==
  \E g \in Handlers, h \in Handlers :
    /\ hs[g].op \in TxnOps /\ hs[g].pc = "done" /\ hs[g].res = Internal
    /\ hs[g].begun = 1
    /\ hs[h].op \in TxnOps /\ hs[h].pc = "done" /\ hs[h].res = OK200
    /\ hs[h].begun = 1 /\ hs[h].op # hs[g].op
    /\ faults = 1 /\ ~inTxn

(***************************************************************************)
(* PUT /materials/:id                                                      *)
(***************************************************************************)
\* the update without its admin check
MaterialUpdate_AnyCaller(h, actor, m, price, stock) ==
  /\ Free(h)
  /\ calls' = calls + 1
  /\ LET start == [Blank EXCEPT !.op = "material", !.actor = actor, !.material_id = m,
                                !.price_per_unit = price, !.stock_quantity = stock]
     IN  /\ hs' = [hs EXCEPT ![h] = [start EXCEPT !.pc = "m_select"]]
         /\ db' = IF m \in DOMAIN db.stock_quantity
                    THEN [db EXCEPT !.price_per_unit[m] = price,
                                    !.stock_quantity[m] = stock]
                    ELSE db
  /\ UNCHANGED <<snap, inTxn, faults>>

\* the update also recomputing total_cost of the material's order rows
MaterialUpdate_Reprice(h, actor, m, price, stock) ==
  /\ Free(h)
  /\ calls' = calls + 1
  /\ LET start == [Blank EXCEPT !.op = "material", !.actor = actor, !.material_id = m,
                                !.price_per_unit = price, !.stock_quantity = stock]
     IN  IF authenticateToken(actor).user_type # "admin"
           THEN /\ hs' = [hs EXCEPT ![h] = [start EXCEPT !.pc = "done", !.res = Forbidden]]
                /\ UNCHANGED db
           ELSE /\ hs' = [hs EXCEPT ![h] = [start EXCEPT !.pc = "m_select"]]
                /\ db' = IF m \in DOMAIN db.stock_quantity
                           THEN [db EXCEPT
                                   !.price_per_unit[m] = price,
                                   !.stock_quantity[m] = stock,
                                   !.project_materials =
                                      [i \in DOMAIN @ |->
                                         IF @[i].material_id = m
                                           THEN [@[i] EXCEPT !.total_cost =
                                                   price * db.project_materials[i].quantity]
                                           ELSE @[i]]]
                           ELSE db
  /\ UNCHANGED <<snap, inTxn, faults>>

\* admin check; UPDATE materials SET ..., price_per_unit = ?, stock_quantity = ?
\*   WHERE id = ?   (no row changes when the id is absent)
MaterialUpdate(h, actor, m, price, stock) ==
  /\ Free(h)
  /\ calls' = calls + 1
  /\ LET start == [Blank EXCEPT !.op = "material", !.actor = actor, !.material_id = m,
                                !.price_per_unit = price, !.stock_quantity = stock]
     IN  IF authenticateToken(actor).user_type # "admin"
           THEN /\ hs' = [hs EXCEPT ![h] = [start EXCEPT !.pc = "done", !.res = Forbidden]]
                /\ UNCHANGED db
           ELSE /\ hs' = [hs EXCEPT ![h] = [start EXCEPT !.pc = "m_select"]]
                /\ db' = IF m \in DOMAIN db.stock_quantity
                           THEN [db EXCEPT !.price_per_unit[m] = price,
                                           !.stock_quantity[m] = stock]
                           ELSE db
  /\ UNCHANGED <<snap, inTxn, faults>>

\* SELECT * FROM materials WHERE id = ?; res.json(material)
MaterialSelect(h) ==
  /\ hs[h].pc = "m_select"
  /\ hs' = Respond(h, OK200)
  /\ UNCHANGED <<db, snap, inTxn, calls, faults>>

(***************************************************************************)
(* Every writer of the store side by side (checked under SpecStore, which  *)
(* starts from AcceptedDB).                                                *)
(***************************************************************************)
MaterialCallers == {"admin", "ce1"}
\* req.body.price_per_unit, req.body.stock_quantity: a restock at a new
\* price, and a stock correction downwards
MaterialValues ==
  { [price |-> InitPrice + 2, stock |-> InitStock + 1],
    [price |-> InitPrice, stock |-> InitStock - 2] }
StoreStatuses == {"completed"}

StoreStep(h) ==
  \/ CreateStep(h)
  \/ RespondStep(h)
  \/ AssignStep(h)
  \/ OrderStep(h)
  \/ MaterialSelect(h)
  \/ UpdateProject(h)

NextStore ==
  \E h \in Handlers :
    \/ /\ calls < MaxStoreCalls
       /\ \/ CreateGetProject(h, "u1", "p1", "ce2")
          \/ \E rid \in RequestIds, d \in CreateDecisions :
               RespondGetRequest(h, "ce2", rid, d)
          \/ AssignGetProject(h, "ce1", "p1", "w1", "")
          \/ \E q \in LiveQuantities : OrderGetProject(h, "ce1", "p1", "m1", q)
          \/ \E actor \in MaterialCallers, v \in MaterialValues :
               MaterialUpdate(h, actor, "m1", v.price, v.stock)
          \/ \E s \in StoreStatuses : UpdateGetProject(h, "u1", "p1", s)
    \/ StoreStep(h)

SpecStore == InitOrder /\ [][NextStore]_vars

\* the decrement statement of an Order of handler h
OrderDecrements(h, m) ==
  /\ hs[h].pc = "o_update" /\ hs'[h].pc = "o_commit"
  /\ hs[h].material_id = m
  /\ db'.stock_quantity[m] = db.stock_quantity[m] - hs[h].quantity

\* C25 (as stated): the committed stock of a material goes down only in the
\* COMMIT step of an Order that is answered 200.
C25_OnlyOrdersLowerStock ==
  [][\A m \in Materials :
        committed'.stock_quantity[m] < committed.stock_quantity[m] =>
           \E h \in Handlers :
              /\ hs[h].pc = "o_commit" /\ hs'[h].pc = "done" /\ hs'[h].res = OK200
              /\ hs[h].material_id = m]_vars

\* C25 (amended): on the connection the stock of a material goes down only
\* by the decrement statement of an Order, by the material update of an
\* admin, which overwrites it with the supplied value, or by a ROLLBACK
\* returning it to its value at BEGIN.
C25_StockLoweredByOrderOrAdmin ==
  [][\A m \in Materials :
        db'.stock_quantity[m] < db.stock_quantity[m] =>
           \E h \in Handlers :
              \/ OrderDecrements(h, m)
              \/ /\ Arrives(h, "material")
                 /\ hs'[h].actor \in Admins
                 /\ hs'[h].material_id = m
                 /\ db'.stock_quantity[m] = hs'[h].stock_quantity
              \/ /\ hs[h].pc \in RollbackLabels /\ hs'[h] # hs[h]
                 /\ db' = snap]_vars

\* an admin has lowered the stock, a worker's update was refused, and no
\* order was placed
C25_Witness ==
  \E g \in Handlers, h \in Handlers :
    /\ hs[g].op = "material" /\ hs[g].pc = "done" /\ hs[g].res = OK200
    /\ hs[g].actor \in Admins
    /\ hs[g].stock_quantity < InitStock
    /\ db.stock_quantity[hs[g].material_id] = hs[g].stock_quantity
    /\ hs[h].op = "material" /\ hs[h].pc = "done" /\ hs[h].res = Forbidden
    /\ db.project_materials = << >>
    /\ ~inTxn

\* C26: the order rows of the committed store are never changed or removed:
\* a step may only append rows, whatever later orders, material updates
\* (price changes) or rollbacks do.
C26_OrderRowsImmutable ==
  [][/\ Len(committed'.project_materials) >= Len(committed.project_materials)
     /\ \A i \in 1..Len(committed.project_materials) :
          committed'.project_materials[i] = committed.project_materials[i]]_vars

\* an order committed at the first price, the admin then changed the price,
\* and a second order committed at the new price; the first row kept its cost
C26_Witness ==
  /\ ~inTxn
  /\ Len(db.project_materials) = 2
  /\ db.project_materials[1].total_cost = db.project_materials[1].quantity * InitPrice
  /\ db.project_materials[2].total_cost =
        db.project_materials[2].quantity * db.price_per_unit["m1"]
  /\ db.price_per_unit["m1"] # InitPrice

\* C27: is_available changes on the connection only in the flag update of
\* an accepting Respond or of an Assign (to 0, for the responder or the
\* assigned worker) or in the ROLLBACK of that same call; the committed
\* flags change only in the COMMIT of such a call.  Create, a rejecting
\* Respond, Order, material update and project update never change them.
C27_AvailabilityWriters ==
  [][/\ db'.is_available # db.is_available =>
          \E h \in Handlers :
             /\ hs'[h] # hs[h]
             /\ \/ /\ hs[h].op = "respond" /\ hs[h].status = "accepted"
                   /\ hs[h].pc = "r_user"
                   /\ db'.is_available = [db.is_available EXCEPT ![hs[h].actor] = FALSE]
                \/ /\ hs[h].op = "assign" /\ hs[h].pc = "a_user"
                   /\ db'.is_available = [db.is_available EXCEPT ![hs[h].worker_id] = FALSE]
                \/ /\ hs[h].op = "respond" /\ hs[h].status = "accepted"
                   /\ hs[h].pc = "r_rollback"
                   /\ db'.is_available = snap.is_available
                \/ /\ hs[h].op = "assign" /\ hs[h].pc = "a_rollback"
                   /\ db'.is_available = snap.is_available
     /\ committed'.is_available # committed.is_available =>
          \E h \in Handlers :
             /\ hs[h].pc \in {"r_commit", "a_commit"}
             /\ hs[h].op = "respond" => hs[h].status = "accepted"
             /\ hs'[h].pc = "done" /\ hs'[h].res = OK200]_vars

\* ce2 accepted a request and is unavailable; a call of another kind has
\* completed and the other workers' flags are as they were
C27_Witness ==
  \E g \in Handlers, h \in Handlers :
    /\ hs[g].op = "respond" /\ hs[g].status = "accepted"
    /\ hs[g].pc = "done" /\ hs[g].res = OK200
    /\ ~db.is_available[hs[g].actor]
    /\ hs[h].op \in {"order", "material", "update"}
    /\ hs[h].pc = "done" /\ hs[h].res = OK200
    /\ db.is_available["w1"]
    /\ ~inTxn

\* the outcome class of one read for actor and project in store d
ReadOutcome(kind, actor, d, p) ==
  LET a == ReadAccess(kind, authenticateToken(actor), d, p)
  IN  IF a = "rd_list" THEN "allowed"
      ELSE IF a = "rd_member"
             THEN IF workerInProject(d, p, actor) THEN "allowed" ELSE Forbidden
             ELSE a

\* C28: in every state of the store the three reads decide alike for every
\* actor and project id: NotFound for an absent project whoever asks,
\* otherwise the same one of Forbidden and allowed; and a read handler
\* answers NotFound only for an absent project.
C28_ReadsDecideAlike ==
  /\ \A actor \in Users, p \in ReadProjects :
        /\ \A k1 \in ReadKinds, k2 \in ReadKinds :
              ReadOutcome(k1, actor, db, p) = ReadOutcome(k2, actor, db, p)
        /\ p \notin Projects => ReadOutcome("materials", actor, db, p) = NotFound
        /\ p \in Projects => ReadOutcome("materials", actor, db, p) \in {Forbidden, "allowed"}
  /\ \A h \in Handlers :
        (hs[h].op \in ReadKinds /\ hs[h].pc = "done" /\ hs[h].res = NotFound)
           => hs[h].project_id \notin Projects

\* the same worker was refused by two different reads of the same project
\* and the third read decides the same
C28_Witness ==
  \E g \in Handlers, h \in Handlers :
    /\ hs[g].op \in ReadKinds /\ hs[h].op \in ReadKinds /\ hs[g].op # hs[h].op
    /\ hs[g].pc = "done" /\ hs[h].pc = "done"
    /\ hs[g].actor = hs[h].actor /\ hs[g].project_id = hs[h].project_id
    /\ hs[g].actor \in Workers
    /\ hs[g].res = Forbidden /\ hs[h].res = Forbidden
    /\ \A k \in ReadKinds :
         ReadOutcome(k, hs[g].actor, db, hs[g].project_id) = Forbidden

(***************************************************************************)
(* Two owners asking the same engineer (checked under SpecAccept, which    *)
(* starts from the fresh store).                                           *)
(***************************************************************************)
AcceptTargets == {"ce1"}

NextAccept ==
  \E h \in Handlers :
    \/ /\ calls < MaxAcceptCalls
       /\ \/ \E p \in Projects, w \in AcceptTargets :
               CreateGetProject(h, created_by(p), p, w)
          \/ \E actor \in AcceptTargets, rid \in RequestIds, d \in CreateDecisions :
               RespondGetRequest(h, actor, rid, d)
    \/ CreateStep(h)
    \/ RespondStep(h)

SpecAccept == Init /\ [][NextAccept]_vars

\* projects whose committed civil engineer is w
EngineerOf(w) == {p \in Projects : committed.civil_engineer_id[p] = w}

\* committed requests that w has accepted
AcceptedBy(w) ==
  {i \in 1..Len(committed.worker_requests) :
     /\ committed.worker_requests[i].worker_id = w
     /\ committed.worker_requests[i].status = "accepted"}

\* C29: every worker is the civil engineer of at most one project and has
\* at most one accepted request.
C29_OneProjectPerEngineer ==
  \A w \in Workers :
    /\ Cardinality(EngineerOf(w)) <= 1
    /\ Cardinality(AcceptedBy(w)) <= 1

\* C30: the row of every CreateRequest answered 201 stays in the store: no
\* ROLLBACK of another request's transaction removes it.
C30_AcknowledgedWritesStay ==
  \A h \in Handlers :
    (hs[h].op = "create" /\ hs[h].pc = "done" /\ hs[h].res = Created201) =>
       /\ hs[h].id <= Len(db.worker_requests)
       /\ db.worker_requests[hs[h].id].project_id = hs[h].project_id
       /\ db.worker_requests[hs[h].id].worker_id = hs[h].worker_id

(***************************************************************************)
(* DELETE /projects/:id                                                    *)
(***************************************************************************)
\* SELECT * FROM projects WHERE id = ?; owner-or-admin check
DeleteGetProject(h, actor, p) ==
  /\ Free(h)
  /\ calls' = calls + 1
  /\ LET start == [Blank EXCEPT !.op = "delete", !.actor = actor, !.project_id = p]
         user == authenticateToken(actor)
     IN  IF ~ProjectExists(db, p)
           THEN hs' = [hs EXCEPT ![h] = [start EXCEPT !.pc = "done", !.res = NotFound]]
           ELSE IF user.user_type # "admin" /\ created_by(p) # user.id
                  THEN hs' = [hs EXCEPT ![h] =
                                [start EXCEPT !.pc = "done", !.res = Forbidden]]
                  ELSE hs' = [hs EXCEPT ![h] = [start EXCEPT !.pc = "d_delete"]]
  /\ UNCHANGED <<db, snap, inTxn, faults>>

\* the delete also marking the workers of the project available again
DeleteProject_Release(h) ==
  /\ hs[h].pc = "d_delete"
  /\ LET keep == DOMAIN db.civil_engineer_id \ {hs[h].project_id}
         freed == {db.project_workers[i].worker_id : i \in
                     {j \in 1..Len(db.project_workers) :
                        db.project_workers[j].project_id = hs[h].project_id}}
     IN  db' = [db EXCEPT
                  !.civil_engineer_id = [q \in keep |-> db.civil_engineer_id[q]],
                  !.status = [q \in keep |-> db.status[q]],
                  !.is_available = [w \in DOMAIN @ |-> IF w \in freed THEN TRUE ELSE @[w]]]
  /\ hs' = Respond(h, OK200)
  /\ UNCHANGED <<snap, inTxn, calls, faults>>

\* DELETE FROM projects WHERE id = ?   (the schema declares its foreign keys
\* without ON DELETE actions and the connection never enables their
\* enforcement, so only the projects row goes)
DeleteProject(h) ==
  /\ hs[h].pc = "d_delete"
  /\ LET keep == DOMAIN db.civil_engineer_id \ {hs[h].project_id}
     IN  db' = [db EXCEPT
                  !.civil_engineer_id = [q \in keep |-> db.civil_engineer_id[q]],
                  !.status = [q \in keep |-> db.status[q]]]
  /\ hs' = Respond(h, OK200)
  /\ UNCHANGED <<snap, inTxn, calls, faults>>

(***************************************************************************)
(* The life of a project after its engineer accepted (checked under        *)
(* SpecDelete, which starts from AcceptedDB).                              *)
(***************************************************************************)
DeleteCallers == {"u1", "u2"}
DeleteStatuses == {"completed", "cancelled"}

DeleteStep(h) ==
  \/ CreateStep(h)
  \/ RespondStep(h)
  \/ AssignStep(h)
  \/ UpdateProject(h)
  \/ DeleteProject(h)

NextDelete ==
  \E h \in Handlers :
    \/ /\ calls < MaxDeleteCalls
       /\ \/ CreateGetProject(h, "u1", "p1", "ce2")
          \/ \E rid \in RequestIds, d \in CreateDecisions :
               RespondGetRequest(h, "ce2", rid, d)
          \/ AssignGetProject(h, "ce1", "p1", "w1", "")
          \/ \E s \in DeleteStatuses : UpdateGetProject(h, "u1", "p1", s)
          \/ \E actor \in DeleteCallers : DeleteGetProject(h, actor, "p1")
    \/ DeleteStep(h)

SpecDelete == InitOrder /\ [][NextDelete]_vars

\* C31: a worker whose committed is_available is 0 keeps it 0 in every
\* later committed state, whatever is rejected, completed, cancelled or
\* deleted; on the connection the flag goes back to 1 only in the ROLLBACK
\* of the transaction that had set it, which restores the value at BEGIN.
C31_AvailabilityMonotone ==
  [][\A w \in Workers :
        /\ ~committed.is_available[w] => ~committed'.is_available[w]
        /\ (~db.is_available[w] /\ db'.is_available[w]) =>
              /\ snap.is_available[w]
              /\ db' = snap
              /\ \E h \in Handlers :
                    hs[h].pc \in {"r_rollback", "a_rollback"} /\ hs'[h] # hs[h]]_vars

\* the project ce1 was engineer of is deleted, ce2 has rejected a request,
\* and ce1 is still unavailable
C31_Witness ==
  \E g \in Handlers, h \in Handlers :
    /\ hs[g].op = "delete" /\ hs[g].pc = "done" /\ hs[g].res = OK200
    /\ hs[h].op = "respond" /\ hs[h].status = "rejected"
    /\ hs[h].pc = "done" /\ hs[h].res = OK200
    /\ ~ProjectExists(db, "p1")
    /\ ~db.is_available["ce1"]
    /\ db.is_available["ce2"]
    /\ ~inTxn

\* C32: every assignment row and every accepted request of the committed
\* store names a project that exists, and every unavailable worker has an
\* assignment row for an existing project.
C32_RowsReferToProjects ==
  /\ \A i \in 1..Len(committed.project_workers) :
        ProjectExists(committed, committed.project_workers[i].project_id)
  /\ \A i \in 1..Len(committed.worker_requests) :
        committed.worker_requests[i].status = "accepted" =>
           ProjectExists(committed, committed.worker_requests[i].project_id)
  /\ \A w \in Workers :
        ~committed.is_available[w] =>
           \E i \in 1..Len(committed.project_workers) :
              /\ committed.project_workers[i].worker_id = w
              /\ ProjectExists(committed, committed.project_workers[i].project_id)

====
